---------------------------- MODULE Spec2Model ----------------------------
(***************************************************************************)
(* Model of the batch video converter (kasm/vconv).  Three scripts exist   *)
(* in the repository: the sequential script with English messages          *)
(* (src/unnamed/part_000), its copy with Russian messages                  *)
(* (src/convert.js:1-253) and the older concurrent script                   *)
(* (src/convert.js:254-391).  The variable script selects which one runs.  *)
(***************************************************************************)
EXTENDS Integers, Sequences, FiniteSets, TLC

(* ------------------------------ bounds -------------------------------- *)

\* Largest number of entries the input directory holds.
MaxFiles == 2

(* --------------------------- JavaScript values ------------------------ *)

\* The value of a missing argument / missing property.
Undefined == "undefined"

\* The characters of the template-literal rendering of undefined.
UndefinedChars == <<"u", "n", "d", "e", "f", "i", "n", "e", "d">>

(* ------------------------------ scripts ------------------------------- *)

SeqEn == "part_000"
SeqRu == "convert.js#sequential"
Conc == "convert.js#concurrent"

Scripts == {SeqEn, SeqRu, Conc}

IsSequential(s) == s \in {SeqEn, SeqRu}

(* ------------------------------ presets ------------------------------- *)

ExtMp4 == <<".", "m", "p", "4">>
ExtAvi == <<".", "a", "v", "i">>
ExtMp3 == <<".", "m", "p", "3">>

Preset_conv0_5 ==
  [cli |-> <<"-vf", "scale=iw*0.5:ih*0.5", "-c:v", "libx264", "-crf", "28",
             "-c:a", "aac", "-b:a", "128k">>,
   outputExtension |-> ExtMp4]

Preset_conv0_25s ==
  [cli |-> <<"-vf", "scale=iw*0.25:ih*0.25", "-c:v", "libxvid", "-q:v", "5",
             "-c:a", "libmp3lame", "-b:a", "128k">>,
   outputExtension |-> ExtAvi]

Preset_conv256s ==
  [cli |-> <<"-vf", "scale=-2:256", "-af", "volume=2.0", "-c:v", "libxvid",
             "-q:v", "5", "-c:a", "libmp3lame", "-b:a", "192k">>,
   outputExtension |-> ExtAvi]

Preset_web_h264 ==
  [cli |-> <<"-c:v", "libx264", "-crf", "23", "-preset", "medium",
             "-c:a", "aac", "-b:a", "160k", "-movflags", "+faststart">>,
   outputExtension |-> ExtMp4]

Preset_extract_audio ==
  [cli |-> <<"-vn", "-c:a", "libmp3lame", "-q:a", "2">>,
   outputExtension |-> ExtMp3]

\* Object.keys(PRESETS): the own keys, in insertion order.
PresetKeys(s) ==
  IF s = SeqEn
    THEN <<"conv0_5", "conv0_25s", "conv256s", "web_h264", "extract_audio">>
    ELSE <<"conv0_5", "web_h264", "extract_audio">>

PresetTable ==
  [n \in {"conv0_5", "conv0_25s", "conv256s", "web_h264", "extract_audio"} |->
     CASE n = "conv0_5" -> Preset_conv0_5
       [] n = "conv0_25s" -> Preset_conv0_25s
       [] n = "conv256s" -> Preset_conv256s
       [] n = "web_h264" -> Preset_web_h264
       [] n = "extract_audio" -> Preset_extract_audio]

Range(seq) == {seq[k] : k \in 1..Len(seq)}

\* The PRESETS object literal of script s: own properties only.
PRESETS(s) == [n \in Range(PresetKeys(s)) |-> PresetTable[n]]

\* PRESETS is an object literal, so a property read also finds what
\* Object.prototype provides.  Every one of these values is truthy and has
\* neither a cli nor an outputExtension property.
ObjectPrototypeKeys ==
  {"constructor", "toString", "valueOf", "hasOwnProperty", "__proto__"}

InheritedValue == [cli |-> Undefined, outputExtension |-> UndefinedChars]

NoPreset == [cli |-> Undefined, outputExtension |-> <<>>]

\* const preset = PRESETS[presetName]
LookupPreset(s, name) ==
  IF name \in DOMAIN PRESETS(s) THEN PRESETS(s)[name]
  ELSE IF name \in ObjectPrototypeKeys THEN InheritedValue
  ELSE NoPreset

\* if (!preset)
PresetMissing(s, name) ==
  /\ name \notin DOMAIN PRESETS(s)
  /\ name \notin ObjectPrototypeKeys

(* ------------------------------ file names ---------------------------- *)

\* File names and paths are sequences of characters.

LowerChar(c) ==
  CASE c = "M" -> "m"
    [] c = "K" -> "k"
    [] c = "V" -> "v"
    [] OTHER -> c

\* String.prototype.toLowerCase
ToLowerCase(str) == [k \in 1..Len(str) |-> LowerChar(str[k])]

Dots(str) == {k \in 1..Len(str) : str[k] = "."}

LastDot(str) == CHOOSE k \in Dots(str) : \A m \in Dots(str) : m <= k

\* path.extname of a bare file name: the text from the last dot on, unless
\* there is no dot, or only dots precede the last dot and the name is a
\* dot-file (".mp4") or "..".
ExtStart(str) ==
  IF Dots(str) = {} THEN 0
  ELSE LET d == LastDot(str)
           nonDotBefore == \E k \in 1..(d - 1) : str[k] # "."
           dotBefore == d > 1
       IN  IF nonDotBefore THEN d
           ELSE IF dotBefore /\ ~(d = Len(str) /\ d = 2) THEN d
           ELSE 0

extname(str) ==
  IF ExtStart(str) = 0 THEN <<>> ELSE SubSeq(str, ExtStart(str), Len(str))

\* path.parse(file).name
ParseName(str) ==
  IF ExtStart(str) = 0 THEN str ELSE SubSeq(str, 1, ExtStart(str) - 1)

VIDEO_EXTENSIONS ==
  << <<".", "m", "p", "4">>, <<".", "m", "k", "v">>, <<".", "a", "v", "i">>,
     <<".", "m", "o", "v">>, <<".", "f", "l", "v">>, <<".", "w", "m", "v">> >>

\* Mutation of IsVideoFile: the extension is compared as it is spelled.
IsVideoFile_CaseSensitive(file) == extname(file) \in Range(VIDEO_EXTENSIONS)

\* VIDEO_EXTENSIONS.includes(path.extname(file).toLowerCase())
IsVideoFile(file) == ToLowerCase(extname(file)) \in Range(VIDEO_EXTENSIONS)

\* Array.prototype.filter keeps the order of the listing.
RECURSIVE Filter(_)
Filter(fs) ==
  IF fs = <<>> THEN <<>>
  ELSE IF IsVideoFile(Head(fs)) THEN <<Head(fs)>> \o Filter(Tail(fs))
  ELSE Filter(Tail(fs))

\* Mutation of OutputName: the file name is used where its stem belongs.
OutputName_KeepsExtension(file, p) == file \o p.outputExtension

\* `${fileData.name}${preset.outputExtension}`
OutputName(file, p) == ParseName(file) \o p.outputExtension

\* path.join(outputDir, outputName)
OutputPath(file, p) == <<"output", "/">> \o OutputName(file, p)

\* path.join(inputDir, file)
InputPath(file) == <<"input", "/">> \o file

(* ------------------------------ inputs -------------------------------- *)

\* process.argv[2]: absent, empty, own keys, an unknown name and a name that
\* Object.prototype provides.
ArgPool == {Undefined, "", "web_h264", "conv256s", "nope", "constructor"}

F_a_mp4 == <<"a", ".", "m", "p", "4">>
F_a_MKV == <<"a", ".", "M", "K", "V">>
F_b_avi == <<"b", ".", "a", "v", "i">>
F_n_txt == <<"n", ".", "t", "x", "t">>
F_dot_mp4 == <<".", "m", "p", "4">>

\* The names the input directory may hold.
DirEntries == {F_a_mp4, F_a_MKV, F_b_avi, F_n_txt, F_dot_mp4}

\* The listings fs.readdir may return: distinct names, in any order.
Listings ==
  {l \in UNION {[1..n -> DirEntries] : n \in 0..MaxFiles} :
     \A x, y \in 1..Len(l) : x # y => l[x] # l[y]}

\* What ffprobe reports for a readable file.
MetaEmpty == [format |-> [size |-> 0, duration |-> "0"], streams |-> <<>>]

MetaVideo ==
  [format |-> [size |-> 1000, duration |-> "10"],
   streams |-> << [codec_type |-> "video", codec_name |-> "h264",
                   bit_rate |-> "800000"],
                  [codec_type |-> "audio", codec_name |-> "aac",
                   bit_rate |-> Undefined] >>]

MetaPool == {MetaEmpty, MetaVideo}

\* How fs.appendFile behaves during the run: it always works, it always
\* fails, or every second call fails.
Disks == {"ok", "full", "flaky"}

AppendFails(d, k) == d = "full" \/ (d = "flaky" /\ k % 2 = 0)

(* ------------------------------ prober -------------------------------- *)

NoStream == [codec_type |-> "none", codec_name |-> Undefined, bit_rate |-> Undefined]

\* metadata.streams.find(s => s.codec_type === type)
FindStream(streams, type) ==
  IF \E k \in 1..Len(streams) : streams[k].codec_type = type
    THEN streams[CHOOSE k \in 1..Len(streams) :
                   /\ streams[k].codec_type = type
                   /\ \A m \in 1..(k - 1) : streams[m].codec_type # type]
    ELSE NoStream

\* x || 'N/A'
OrNA(x) == IF x = Undefined \/ x = "" THEN "N/A" ELSE x

\* The record getFileStats resolves with.
getFileStats(metadata) ==
  LET videoStream == FindStream(metadata.streams, "video")
      audioStream == FindStream(metadata.streams, "audio")
  IN  [size |-> metadata.format.size,
       duration |-> metadata.format.duration,
       videoCodec |-> IF videoStream # NoStream THEN videoStream.codec_name ELSE "N/A",
       videoBitrate |-> IF videoStream # NoStream THEN OrNA(videoStream.bit_rate) ELSE "N/A",
       audioCodec |-> IF audioStream # NoStream THEN audioStream.codec_name ELSE "N/A",
       audioBitrate |-> IF audioStream # NoStream THEN OrNA(audioStream.bit_rate) ELSE "N/A"]

\* A local that holds no stats record.
NoStats ==
  [size |-> -1, duration |-> Undefined, videoCodec |-> Undefined,
   videoBitrate |-> Undefined, audioCodec |-> Undefined, audioBitrate |-> Undefined]

\* ((targetStats.size - sourceStats.size) / sourceStats.size) * 100, as
\* toFixed(2) prints it: hundredths of a percent, or NaN / Infinity.
SizeChange(sourceSize, targetSize) ==
  IF sourceSize = 0
    THEN IF targetSize - sourceSize = 0
           THEN [kind |-> "NaN", hundredths |-> 0]
           ELSE IF targetSize - sourceSize > 0
             THEN [kind |-> "Infinity", hundredths |-> 0]
             ELSE [kind |-> "-Infinity", hundredths |-> 0]
    ELSE [kind |-> "finite",
          hundredths |-> ((targetSize - sourceSize) * 10000) \div sourceSize]

NoSizeChange == [kind |-> "unset", hundredths |-> 0]

(* ------------------------------ logger -------------------------------- *)

\* A message: what it says (kind), the file it names, the number and the
\* names it carries.
Msg(kind, file, val, text) == [kind |-> kind, file |-> file, val |-> val, text |-> text]

M(kind) == Msg(kind, <<>>, 0, <<>>)

MF(kind, file) == Msg(kind, file, 0, <<>>)

\* A console line: the channel and the message.
Con(ch, m) == [ch |-> ch, kind |-> m.kind, file |-> m.file, val |-> m.val, text |-> m.text]

\* Mutation of logInfo: the append precedes console.log inside the try, so a
\* failed append skips the console line.
logInfo_AppendFirst(io, d, message) ==
  LET k == io.appendCalls + 1
  IN  IF AppendFails(d, k)
        THEN [console |-> Append(io.console, Con("error", M("CRITICAL"))),
              logFile |-> io.logFile,
              appendCalls |-> k]
        ELSE [console |-> Append(io.console, Con("log", message)),
              logFile |-> Append(io.logFile, message),
              appendCalls |-> k]

\* logInfo(message) on the output state io = [console, logFile, appendCalls]:
\* console.log first, then fs.appendFile; a failed append is caught and
\* reported with console.error.
logInfo(io, d, message) ==
  LET k == io.appendCalls + 1
  IN  IF AppendFails(d, k)
        THEN [console |-> io.console \o <<Con("log", message), Con("error", M("CRITICAL"))>>,
              logFile |-> io.logFile,
              appendCalls |-> k]
        ELSE [console |-> Append(io.console, Con("log", message)),
              logFile |-> Append(io.logFile, message),
              appendCalls |-> k]

\* Consecutive awaited logInfo calls: each call works on the output state
\* the call before it left (bound as a value, so that it is computed once).
RECURSIVE LogAll(_, _, _)
LogAll(io, d, msgs) ==
  IF msgs = <<>> THEN io
  ELSE CHOOSE result \in {LogAll(next, d, Tail(msgs)) :
                            next \in {logInfo(io, d, Head(msgs))}} : TRUE

(* ------------------------------- state -------------------------------- *)

VARIABLES
  script,          \* which script runs
  argv,            \* process.argv[2]
  disk,            \* behaviour of fs.appendFile
  pc,              \* where the script is
  preset,          \* const preset
  fsCalls,         \* the directory operations performed, in order
  files,           \* the listing fs.readdir returned
  videoFiles,      \* the candidates
  i,               \* loop index of the sequential scripts (1-based)
  successCount,
  failedCount,
  srcProbe,        \* per candidate: state of the source probe
  engine,          \* per candidate: state of the engine invocation
  tgtProbe,        \* per candidate: state of the target probe
  started,         \* per candidate: the 'start' event was delivered
  promises,        \* concurrent script: state of conversionPromises[j]
  outputPaths,     \* per candidate: the path given to .output(outputPath)
  sourceStats,
  targetStats,
  sizeChange,
  conversionError,
  console,         \* console.log / console.warn / console.error lines
  stdoutLine,      \* the progress line process.stdout.write keeps rewriting
  logFile,         \* lines of process_<date>.log
  appendCalls      \* number of fs.appendFile calls made

vars ==
  <<script, argv, disk, pc, preset, fsCalls, files, videoFiles, i,
    successCount, failedCount, srcProbe, engine, tgtProbe, started, promises,
    outputPaths, sourceStats, targetStats, sizeChange, conversionError,
    console, stdoutLine, logFile, appendCalls>>

inputVars == <<script, argv, disk>>

jobVars == <<srcProbe, engine, tgtProbe, started, promises, outputPaths>>

localVars == <<sourceStats, targetStats, sizeChange, conversionError>>

countVars == <<successCount, failedCount>>

IO == [console |-> console, logFile |-> logFile, appendCalls |-> appendCalls]

SetIO(io) ==
  /\ console' = io.console
  /\ logFile' = io.logFile
  /\ appendCalls' = io.appendCalls

N == Len(videoFiles)

Init ==
  /\ script \in Scripts
  /\ argv \in ArgPool
  /\ disk \in Disks
  /\ pc = "entry"
  /\ preset = NoPreset
  /\ fsCalls = <<>>
  /\ files = <<>>
  /\ videoFiles = <<>>
  /\ i = 0
  /\ successCount = 0
  /\ failedCount = 0
  /\ srcProbe = <<>>
  /\ engine = <<>>
  /\ tgtProbe = <<>>
  /\ started = <<>>
  /\ promises = <<>>
  /\ outputPaths = <<>>
  /\ sourceStats = NoStats
  /\ targetStats = NoStats
  /\ sizeChange = NoSizeChange
  /\ conversionError = FALSE
  /\ console = <<>>
  /\ stdoutLine = ""
  /\ logFile = <<>>
  /\ appendCalls = 0

(* ----------------------------- entry point ---------------------------- *)

\* if (!presetName)
NoArgument(a) == a = Undefined \/ a = ""

\* Mutation of Usage: the usage text is written with logInfo.
Usage_ViaLogInfo ==
  /\ pc = "entry"
  /\ NoArgument(argv)
  /\ SetIO(LogAll(IO, disk,
        <<M("PleaseProvide"), M("UsageLine"),
          Msg("AvailablePresets", <<>>, 0, PresetKeys(script))>>))
  /\ pc' = "done"
  /\ UNCHANGED <<inputVars, preset, fsCalls, files, videoFiles, i, countVars,
                 jobVars, localVars, stdoutLine>>

\* Entry point without a preset argument: usage on the console, nothing else.
Usage ==
  /\ pc = "entry"
  /\ NoArgument(argv)
  /\ console' = console \o
       <<Con("log", M("PleaseProvide")), Con("log", M("UsageLine")),
         Con("log", Msg("AvailablePresets", <<>>, 0, PresetKeys(script)))>>
  /\ pc' = "done"
  /\ UNCHANGED <<inputVars, preset, fsCalls, files, videoFiles, i, countVars,
                 jobVars, localVars, stdoutLine, logFile, appendCalls>>

\* What the first statement of convertVideos writes: logInfo in the
\* sequential scripts, console.log in the concurrent one.
SessionStart(io) ==
  IF IsSequential(script)
    THEN logInfo(io, disk, Msg("SessionStart", <<>>, 0, <<argv>>))
    ELSE [io EXCEPT !.console = Append(@, Con("log", Msg("SessionStart", <<>>, 0, <<argv>>)))]

\* What the not-found branch writes.
NotFoundReport(io) ==
  IF IsSequential(script)
    THEN LogAll(io, disk,
                <<Msg("PresetNotFound", <<>>, 0, <<argv>>),
                  Msg("AvailablePresets", <<>>, 0, PresetKeys(script))>>)
    ELSE [io EXCEPT !.console = @ \o
            <<Con("error", Msg("PresetNotFound", <<>>, 0, <<argv>>)),
              Con("log", Msg("AvailablePresets", <<>>, 0, PresetKeys(script)))>>]

\* convertVideos(presetName) with a name whose lookup yields nothing.
UnknownPreset ==
  /\ pc = "entry"
  /\ ~NoArgument(argv)
  /\ PresetMissing(script, argv)
  /\ SetIO(NotFoundReport(SessionStart(IO)))
  /\ pc' = "done"
  /\ UNCHANGED <<inputVars, preset, fsCalls, files, videoFiles, i, countVars,
                 jobVars, localVars, stdoutLine>>

\* convertVideos(presetName) with a name whose lookup yields a value.
ResolvePreset ==
  /\ pc = "entry"
  /\ ~NoArgument(argv)
  /\ ~PresetMissing(script, argv)
  /\ SetIO(SessionStart(IO))
  /\ preset' = LookupPreset(script, argv)
  /\ pc' = "mkdirInput"
  /\ UNCHANGED <<inputVars, fsCalls, files, videoFiles, i, countVars,
                 jobVars, localVars, stdoutLine>>

(* ----------------------------- directories ---------------------------- *)

\* One directory operation and whether it succeeded.
FsCall(call, ok) == [call |-> call, ok |-> ok]

\* What the catch around the directory operations writes.
DirErrorReport(io) ==
  IF IsSequential(script)
    THEN logInfo(io, disk, M("DirError"))
    ELSE [io EXCEPT !.console = Append(@, Con("error", M("CriticalError")))]

\* Mutation of DirFail: the catch reports the error and lacks its return, so
\* a failed mkdir is followed by the next directory operation.
DirFail_NoReturn(at, call) ==
  /\ pc = at
  /\ fsCalls' = Append(fsCalls, FsCall(call, FALSE))
  /\ SetIO(DirErrorReport(IO))
  /\ pc' = (IF at = "mkdirInput" THEN "mkdirOutput"
            ELSE IF at = "mkdirOutput" THEN "readdir" ELSE "done")
  /\ UNCHANGED <<inputVars, preset, files, videoFiles, i, countVars,
                 jobVars, localVars, stdoutLine>>

\* One directory operation fails: the catch reports it and the run returns.
DirFail(at, call) ==
  /\ pc = at
  /\ fsCalls' = Append(fsCalls, FsCall(call, FALSE))
  /\ SetIO(DirErrorReport(IO))
  /\ pc' = "done"
  /\ UNCHANGED <<inputVars, preset, files, videoFiles, i, countVars,
                 jobVars, localVars, stdoutLine>>

\* await fs.mkdir(inputDir, { recursive: true })
MkdirInput ==
  /\ pc = "mkdirInput"
  /\ fsCalls' = Append(fsCalls, FsCall("mkdir input", TRUE))
  /\ pc' = "mkdirOutput"
  /\ UNCHANGED <<inputVars, preset, files, videoFiles, i, countVars, jobVars,
                 localVars, console, stdoutLine, logFile, appendCalls>>

MkdirInputFails == DirFail("mkdirInput", "mkdir input")

\* await fs.mkdir(outputDir, { recursive: true })
MkdirOutput ==
  /\ pc = "mkdirOutput"
  /\ fsCalls' = Append(fsCalls, FsCall("mkdir output", TRUE))
  /\ pc' = "readdir"
  /\ UNCHANGED <<inputVars, preset, files, videoFiles, i, countVars, jobVars,
                 localVars, console, stdoutLine, logFile, appendCalls>>

MkdirOutputFails == DirFail("mkdirOutput", "mkdir output")

ReaddirFails == DirFail("readdir", "readdir input")

\* Mutation of ReaddirNoVideo: the branch lacks its return.
ReaddirNoVideo_NoReturn ==
  /\ pc = "readdir"
  /\ \E l \in Listings :
       /\ Filter(l) = <<>>
       /\ files' = l
       /\ videoFiles' = Filter(l)
  /\ fsCalls' = Append(fsCalls, FsCall("readdir input", TRUE))
  /\ SetIO(IF IsSequential(script)
             THEN logInfo(IO, disk, M("NoFiles"))
             ELSE [IO EXCEPT !.console = Append(@, Con("warn", M("NoFiles")))])
  /\ i' = 1
  /\ pc' = IF IsSequential(script) THEN "loop" ELSE "allSettled"
  /\ UNCHANGED <<inputVars, preset, countVars, jobVars, localVars, stdoutLine>>

\* files = await fs.readdir(inputDir) with no candidate in the listing.
ReaddirNoVideo ==
  /\ pc = "readdir"
  /\ \E l \in Listings :
       /\ Filter(l) = <<>>
       /\ files' = l
       /\ videoFiles' = Filter(l)
  /\ fsCalls' = Append(fsCalls, FsCall("readdir input", TRUE))
  /\ SetIO(IF IsSequential(script)
             THEN logInfo(IO, disk, M("NoFiles"))
             ELSE [IO EXCEPT !.console = Append(@, Con("warn", M("NoFiles")))])
  /\ pc' = "done"
  /\ UNCHANGED <<inputVars, preset, i, countVars, jobVars, localVars, stdoutLine>>

AllOf(n, v) == [j \in 1..n |-> v]

\* Sequential scripts: the listing has candidates; the loop is entered.
ReaddirSequential ==
  /\ pc = "readdir"
  /\ IsSequential(script)
  /\ \E l \in Listings :
       /\ Filter(l) # <<>>
       /\ files' = l
       /\ videoFiles' = Filter(l)
       /\ SetIO(logInfo(IO, disk, Msg("Found", <<>>, Len(Filter(l)), <<>>)))
       /\ srcProbe' = AllOf(Len(Filter(l)), "none")
       /\ engine' = AllOf(Len(Filter(l)), "idle")
       /\ tgtProbe' = AllOf(Len(Filter(l)), "none")
       /\ started' = AllOf(Len(Filter(l)), FALSE)
       /\ outputPaths' = AllOf(Len(Filter(l)), <<>>)
  /\ fsCalls' = Append(fsCalls, FsCall("readdir input", TRUE))
  /\ successCount' = 0
  /\ failedCount' = 0
  /\ i' = 1
  /\ pc' = "loop"
  /\ UNCHANGED <<inputVars, preset, promises, localVars, stdoutLine>>

\* Concurrent script: videoFiles.map(...) calls ffmpeg(...).run() for every
\* candidate before the first await.
ReaddirConcurrent ==
  /\ pc = "readdir"
  /\ script = Conc
  /\ \E l \in Listings :
       /\ Filter(l) # <<>>
       /\ files' = l
       /\ videoFiles' = Filter(l)
       /\ console' = Append(console, Con("log", Msg("Found", <<>>, Len(Filter(l)), <<>>)))
       /\ srcProbe' = AllOf(Len(Filter(l)), "none")
       /\ engine' = AllOf(Len(Filter(l)), "running")
       /\ tgtProbe' = AllOf(Len(Filter(l)), "none")
       /\ started' = AllOf(Len(Filter(l)), FALSE)
       /\ promises' = AllOf(Len(Filter(l)), "pending")
       /\ outputPaths' =
            [j \in 1..Len(Filter(l)) |-> OutputPath(Filter(l)[j], preset)]
  /\ fsCalls' = Append(fsCalls, FsCall("readdir input", TRUE))
  /\ pc' = "allSettled"
  /\ UNCHANGED <<inputVars, preset, i, countVars, localVars, stdoutLine,
                 logFile, appendCalls>>

(* -------------------------- sequential loop --------------------------- *)

file == videoFiles[i]

\* Top of an iteration: the start line is logged and the source probe begins.
BeginJob ==
  /\ pc = "loop"
  /\ i <= N
  /\ SetIO(logInfo(IO, disk, Msg("JobStart", file, i, <<>>)))
  /\ srcProbe' = [srcProbe EXCEPT ![i] = "running"]
  /\ pc' = "srcProbe"
  /\ UNCHANGED <<inputVars, outputPaths, preset, fsCalls, files, videoFiles, i, countVars,
                 engine, tgtProbe, started, promises, localVars,
                 stdoutLine>>

\* The source probe resolves: the four stats lines are logged.
SourceProbeOk ==
  /\ pc = "srcProbe"
  /\ \E m \in MetaPool : sourceStats' = getFileStats(m)
  /\ srcProbe' = [srcProbe EXCEPT ![i] = "ok"]
  /\ SetIO(LogAll(IO, disk,
                  <<MF("SourceStats", file), MF("SourceFileSize", file),
                    MF("SourceVideo", file), MF("SourceAudio", file)>>))
  /\ pc' = "startConversion"
  /\ UNCHANGED <<inputVars, outputPaths, preset, fsCalls, files, videoFiles, i, countVars,
                 engine, tgtProbe, started, promises, targetStats,
                 sizeChange, conversionError, stdoutLine>>

\* The position after an iteration ends (continue, or the end of the body).
NextIteration ==
  /\ i' = i + 1
  /\ pc' = "loop"
  /\ sourceStats' = NoStats
  /\ targetStats' = NoStats
  /\ sizeChange' = NoSizeChange
  /\ conversionError' = FALSE

\* Mutation of SourceProbeFails: the catch returns instead of continuing.
SourceProbeFails_Abort ==
  /\ pc = "srcProbe"
  /\ srcProbe' = [srcProbe EXCEPT ![i] = "failed"]
  /\ SetIO(LogAll(IO, disk, <<MF("ProbeError", file), MF("Skipping", file)>>))
  /\ failedCount' = failedCount + 1
  /\ pc' = "done"
  /\ UNCHANGED <<inputVars, outputPaths, preset, fsCalls, files, videoFiles, i, successCount,
                 engine, tgtProbe, started, promises, localVars, stdoutLine>>

\* Mutation of SourceProbeFails: the catch lacks its continue.
SourceProbeFails_FallsThrough ==
  /\ pc = "srcProbe"
  /\ srcProbe' = [srcProbe EXCEPT ![i] = "failed"]
  /\ SetIO(LogAll(IO, disk, <<MF("ProbeError", file), MF("Skipping", file)>>))
  /\ failedCount' = failedCount + 1
  /\ pc' = "startConversion"
  /\ UNCHANGED <<inputVars, outputPaths, preset, fsCalls, files, videoFiles, i, successCount,
                 engine, tgtProbe, started, promises, localVars, stdoutLine>>

\* Mutation of SourceProbeFails: the catch forgets failedCount++.
SourceProbeFails_NoCount ==
  /\ pc = "srcProbe"
  /\ srcProbe' = [srcProbe EXCEPT ![i] = "failed"]
  /\ SetIO(LogAll(IO, disk, <<MF("ProbeError", file), MF("Skipping", file)>>))
  /\ NextIteration
  /\ UNCHANGED <<inputVars, outputPaths, preset, fsCalls, files, videoFiles, countVars,
                 engine, tgtProbe, started, promises, stdoutLine>>

\* The source probe rejects: two lines, failedCount++, continue.
SourceProbeFails ==
  /\ pc = "srcProbe"
  /\ srcProbe' = [srcProbe EXCEPT ![i] = "failed"]
  /\ SetIO(LogAll(IO, disk, <<MF("ProbeError", file), MF("Skipping", file)>>))
  /\ failedCount' = failedCount + 1
  /\ NextIteration
  /\ UNCHANGED <<inputVars, outputPaths, preset, fsCalls, files, videoFiles, successCount,
                 engine, tgtProbe, started, promises, stdoutLine>>

\* Mutation of StartConversion: the conversion promise is not awaited.
StartConversion_NotAwaited ==
  /\ pc = "startConversion"
  /\ SetIO(logInfo(IO, disk, MF("StartTime", file)))
  /\ engine' = [engine EXCEPT ![i] = "running"]
  /\ outputPaths' = [outputPaths EXCEPT ![i] = OutputPath(file, preset)]
  /\ conversionError' = FALSE
  /\ pc' = "afterConversion"
  /\ UNCHANGED <<inputVars, preset, fsCalls, files, videoFiles, i, countVars,
                 srcProbe, tgtProbe, started, promises, sourceStats,
                 targetStats, sizeChange, stdoutLine>>

\* The start time is logged and ffmpeg(inputPath)...run() is called.
StartConversion ==
  /\ pc = "startConversion"
  /\ SetIO(logInfo(IO, disk, MF("StartTime", file)))
  /\ engine' = [engine EXCEPT ![i] = "running"]
  /\ outputPaths' = [outputPaths EXCEPT ![i] = OutputPath(file, preset)]
  /\ conversionError' = FALSE
  /\ pc' = "engine"
  /\ UNCHANGED <<inputVars, preset, fsCalls, files, videoFiles, i, countVars,
                 srcProbe, tgtProbe, started, promises, sourceStats,
                 targetStats, sizeChange, stdoutLine>>

\* 'start' event: the command goes to the console only.
EngineStarted ==
  /\ pc = "engine"
  /\ engine[i] = "running"
  /\ ~started[i]
  /\ started' = [started EXCEPT ![i] = TRUE]
  /\ console' = Append(console, Con("log", MF("FFmpegCommand", file)))
  /\ UNCHANGED <<inputVars, outputPaths, pc, preset, fsCalls, files, videoFiles, i,
                 countVars, srcProbe, engine, tgtProbe, promises,
                 localVars, stdoutLine, logFile, appendCalls>>

\* 'progress' event: the progress line is rewritten if a percentage is known.
EngineProgress ==
  /\ pc = "engine"
  /\ engine[i] = "running"
  /\ started[i]
  /\ \E percentKnown \in BOOLEAN :
       stdoutLine' = IF percentKnown THEN "progress" ELSE stdoutLine
  /\ UNCHANGED <<inputVars, outputPaths, pc, preset, fsCalls, files, videoFiles, i,
                 countVars, srcProbe, engine, tgtProbe, started, promises,
                 localVars, console, logFile, appendCalls>>

\* 'end' event: the promise resolves.
EngineEnd ==
  /\ pc = "engine"
  /\ engine[i] = "running"
  /\ started[i]
  /\ engine' = [engine EXCEPT ![i] = "end"]
  /\ stdoutLine' = ""
  /\ pc' = "afterConversion"
  /\ UNCHANGED <<inputVars, outputPaths, preset, fsCalls, files, videoFiles, i, countVars,
                 srcProbe, tgtProbe, started, promises, localVars,
                 console, logFile, appendCalls>>

\* Mutation of EngineError: the 'error' handler lacks reject(err), so the
\* awaited promise never settles.
EngineError_NoReject ==
  /\ pc = "engine"
  /\ engine[i] = "running"
  /\ engine' = [engine EXCEPT ![i] = "error"]
  /\ stdoutLine' = ""
  /\ UNCHANGED <<inputVars, outputPaths, pc, preset, fsCalls, files, videoFiles, i,
                 countVars, srcProbe, tgtProbe, started, promises, localVars,
                 console, logFile, appendCalls>>

\* 'error' event: the promise rejects and the catch keeps the error.
EngineError ==
  /\ pc = "engine"
  /\ engine[i] = "running"
  /\ engine' = [engine EXCEPT ![i] = "error"]
  /\ stdoutLine' = ""
  /\ conversionError' = TRUE
  /\ pc' = "afterConversion"
  /\ UNCHANGED <<inputVars, outputPaths, preset, fsCalls, files, videoFiles, i, countVars,
                 srcProbe, tgtProbe, started, promises, sourceStats,
                 targetStats, sizeChange, console, logFile, appendCalls>>

\* Mutation of ConversionFailed: the branch forgets failedCount++.
ConversionFailed_NoCount ==
  /\ pc = "afterConversion"
  /\ conversionError
  /\ SetIO(LogAll(IO, disk,
                  <<MF("EndTime", file), MF("Duration", file), MF("Failed", file)>>))
  /\ pc' = "finish"
  /\ UNCHANGED <<inputVars, preset, fsCalls, files, videoFiles, i, countVars,
                 jobVars, localVars, stdoutLine>>

\* Mutation of ConversionFailed: the timing lines are logged on the success
\* path only.
ConversionFailed_NoTiming ==
  /\ pc = "afterConversion"
  /\ conversionError
  /\ SetIO(logInfo(IO, disk, MF("Failed", file)))
  /\ failedCount' = failedCount + 1
  /\ pc' = "finish"
  /\ UNCHANGED <<inputVars, preset, fsCalls, files, videoFiles, i,
                 successCount, jobVars, localVars, stdoutLine>>

\* End time and duration are logged; a conversion error is logged and
\* counted.
ConversionFailed ==
  /\ pc = "afterConversion"
  /\ conversionError
  /\ SetIO(LogAll(IO, disk,
                  <<MF("EndTime", file), MF("Duration", file), MF("Failed", file)>>))
  /\ failedCount' = failedCount + 1
  /\ pc' = "finish"
  /\ UNCHANGED <<inputVars, preset, fsCalls, files, videoFiles, i,
                 successCount, jobVars, localVars, stdoutLine>>

\* End time and duration are logged; without an error the target probe
\* begins.
ConversionSucceeded ==
  /\ pc = "afterConversion"
  /\ ~conversionError
  /\ SetIO(LogAll(IO, disk, <<MF("EndTime", file), MF("Duration", file)>>))
  /\ tgtProbe' = [tgtProbe EXCEPT ![i] = "running"]
  /\ pc' = "tgtProbe"
  /\ UNCHANGED <<inputVars, outputPaths, preset, fsCalls, files, videoFiles, i, countVars,
                 srcProbe, engine, started, promises, localVars,
                 stdoutLine>>

\* Mutation of TargetProbeOk: the success line is logged before the target
\* stats.
TargetProbeOk_OutcomeFirst ==
  /\ pc = "tgtProbe"
  /\ \E m \in MetaPool :
       /\ targetStats' = getFileStats(m)
       /\ sizeChange' = SizeChange(sourceStats.size, getFileStats(m).size)
  /\ tgtProbe' = [tgtProbe EXCEPT ![i] = "ok"]
  /\ SetIO(LogAll(IO, disk,
                  <<Msg("Success", file, 0, <<OutputName(file, preset)>>),
                    MF("TargetStats", file), MF("TargetFileSize", file),
                    MF("TargetVideo", file), MF("TargetAudio", file),
                    MF("SizeChange", file)>>))
  /\ successCount' = successCount + 1
  /\ pc' = "finish"
  /\ UNCHANGED <<inputVars, outputPaths, preset, fsCalls, files, videoFiles, i, failedCount,
                 srcProbe, engine, started, promises, sourceStats,
                 conversionError, stdoutLine>>

\* The target probe resolves: stats, size change and the success line are
\* logged; successCount++.
TargetProbeOk ==
  /\ pc = "tgtProbe"
  /\ \E m \in MetaPool :
       /\ targetStats' = getFileStats(m)
       /\ sizeChange' = SizeChange(sourceStats.size, getFileStats(m).size)
  /\ tgtProbe' = [tgtProbe EXCEPT ![i] = "ok"]
  /\ SetIO(LogAll(IO, disk,
                  <<MF("TargetStats", file), MF("TargetFileSize", file),
                    MF("TargetVideo", file), MF("TargetAudio", file),
                    MF("SizeChange", file),
                    Msg("Success", file, 0, <<OutputName(file, preset)>>)>>))
  /\ successCount' = successCount + 1
  /\ pc' = "finish"
  /\ UNCHANGED <<inputVars, outputPaths, preset, fsCalls, files, videoFiles, i, failedCount,
                 srcProbe, engine, started, promises, sourceStats,
                 conversionError, stdoutLine>>

\* Mutation of TargetProbeFails: the catch forgets successCount++.
TargetProbeFails_NoCount ==
  /\ pc = "tgtProbe"
  /\ tgtProbe' = [tgtProbe EXCEPT ![i] = "failed"]
  /\ SetIO(logInfo(IO, disk, MF("SuccessNoStats", file)))
  /\ pc' = "finish"
  /\ UNCHANGED <<inputVars, outputPaths, preset, fsCalls, files, videoFiles, i, countVars,
                 srcProbe, engine, started, promises, localVars, stdoutLine>>

\* Mutation of TargetProbeFails: the catch counts the job as failed.
TargetProbeFails_CountsFailed ==
  /\ pc = "tgtProbe"
  /\ tgtProbe' = [tgtProbe EXCEPT ![i] = "failed"]
  /\ SetIO(logInfo(IO, disk, MF("SuccessNoStats", file)))
  /\ failedCount' = failedCount + 1
  /\ pc' = "finish"
  /\ UNCHANGED <<inputVars, outputPaths, preset, fsCalls, files, videoFiles, i, successCount,
                 srcProbe, engine, started, promises, localVars, stdoutLine>>

\* The target probe rejects: a warning is logged; successCount++.
TargetProbeFails ==
  /\ pc = "tgtProbe"
  /\ tgtProbe' = [tgtProbe EXCEPT ![i] = "failed"]
  /\ SetIO(logInfo(IO, disk, MF("SuccessNoStats", file)))
  /\ successCount' = successCount + 1
  /\ pc' = "finish"
  /\ UNCHANGED <<inputVars, outputPaths, preset, fsCalls, files, videoFiles, i, failedCount,
                 srcProbe, engine, started, promises, localVars,
                 stdoutLine>>

\* Last statement of the loop body.
FinishJob ==
  /\ pc = "finish"
  /\ SetIO(logInfo(IO, disk, MF("Finished", file)))
  /\ NextIteration
  /\ UNCHANGED <<inputVars, preset, fsCalls, files, videoFiles, countVars,
                 jobVars, stdoutLine>>

\* After the loop: the four summary lines.
Summary ==
  /\ pc = "loop"
  /\ i > N
  /\ SetIO(LogAll(IO, disk,
                  <<M("SummaryHeader"),
                    Msg("Successful", <<>>, successCount, <<>>),
                    Msg("FailedSkipped", <<>>, failedCount, <<>>),
                    M("LogsSaved")>>))
  /\ pc' = "done"
  /\ UNCHANGED <<inputVars, preset, fsCalls, files, videoFiles, i, countVars,
                 jobVars, localVars, stdoutLine>>

(* -------------------------- concurrent script ------------------------- *)

\* 'start' event of candidate j.
ConcStarted(j) ==
  /\ pc = "allSettled"
  /\ engine[j] = "running"
  /\ ~started[j]
  /\ started' = [started EXCEPT ![j] = TRUE]
  /\ console' = Append(console, Con("log", MF("Started", videoFiles[j])))
  /\ UNCHANGED <<inputVars, outputPaths, pc, preset, fsCalls, files, videoFiles, i,
                 countVars, srcProbe, engine, tgtProbe, promises,
                 localVars, stdoutLine, logFile, appendCalls>>

\* 'end' event of candidate j: its promise is fulfilled.
ConcEnd(j) ==
  /\ pc = "allSettled"
  /\ engine[j] = "running"
  /\ started[j]
  /\ engine' = [engine EXCEPT ![j] = "end"]
  /\ promises' = [promises EXCEPT ![j] = "fulfilled"]
  /\ console' = Append(console,
       Con("log", Msg("Success", videoFiles[j], 0, <<OutputName(videoFiles[j], preset)>>)))
  /\ UNCHANGED <<inputVars, outputPaths, pc, preset, fsCalls, files, videoFiles, i,
                 countVars, srcProbe, tgtProbe, started, localVars,
                 stdoutLine, logFile, appendCalls>>

\* 'error' event of candidate j: its promise is rejected.
ConcError(j) ==
  /\ pc = "allSettled"
  /\ engine[j] = "running"
  /\ engine' = [engine EXCEPT ![j] = "error"]
  /\ promises' = [promises EXCEPT ![j] = "rejected"]
  /\ console' = Append(console, Con("error", MF("Failed", videoFiles[j])))
  /\ UNCHANGED <<inputVars, outputPaths, pc, preset, fsCalls, files, videoFiles, i,
                 countVars, srcProbe, tgtProbe, started, localVars,
                 stdoutLine, logFile, appendCalls>>

Fulfilled(ps) == Cardinality({j \in 1..Len(ps) : ps[j] = "fulfilled"})

\* Promise.allSettled resolves; the counts are computed and printed.
ConcSummary ==
  /\ pc = "allSettled"
  /\ \A j \in 1..N : promises[j] # "pending"
  /\ successCount' = Fulfilled(promises)
  /\ failedCount' = Len(promises) - Fulfilled(promises)
  /\ console' = console \o
       <<Con("log", M("SummaryHeader")),
         Con("log", Msg("Successful", <<>>, Fulfilled(promises), <<>>)),
         Con("log", Msg("FailedSkipped", <<>>, Len(promises) - Fulfilled(promises), <<>>))>>
  /\ pc' = "done"
  /\ UNCHANGED <<inputVars, preset, fsCalls, files, videoFiles, i, jobVars,
                 localVars, stdoutLine, logFile, appendCalls>>

(* --------------------------- specification ---------------------------- *)

Next ==
  \/ Usage
  \/ UnknownPreset
  \/ ResolvePreset
  \/ MkdirInput
  \/ MkdirInputFails
  \/ MkdirOutput
  \/ MkdirOutputFails
  \/ ReaddirFails
  \/ ReaddirNoVideo
  \/ ReaddirSequential
  \/ ReaddirConcurrent
  \/ BeginJob
  \/ SourceProbeOk
  \/ SourceProbeFails
  \/ StartConversion
  \/ EngineStarted
  \/ EngineProgress
  \/ EngineEnd
  \/ EngineError
  \/ ConversionFailed
  \/ ConversionSucceeded
  \/ TargetProbeOk
  \/ TargetProbeFails
  \/ FinishJob
  \/ Summary
  \/ \E j \in 1..N : ConcStarted(j) \/ ConcEnd(j) \/ ConcError(j)
  \/ ConcSummary

Spec == Init /\ [][Next]_vars

\* The steps the script takes by itself, between two awaits.
ProgramStep ==
  \/ Usage \/ UnknownPreset \/ ResolvePreset
  \/ BeginJob \/ StartConversion
  \/ ConversionFailed \/ ConversionSucceeded
  \/ FinishJob \/ Summary \/ ConcSummary

\* The filesystem answers an awaited mkdir or readdir.
FsResult ==
  \/ MkdirInput \/ MkdirInputFails \/ MkdirOutput \/ MkdirOutputFails
  \/ ReaddirFails \/ ReaddirNoVideo \/ ReaddirSequential \/ ReaddirConcurrent

\* A probe delivers its result.
ProbeResult ==
  SourceProbeOk \/ SourceProbeFails \/ TargetProbeOk \/ TargetProbeFails

\* An engine invocation delivers its terminal event.
EngineResult ==
  \/ EngineEnd \/ EngineError
  \/ \E j \in 1..N : ConcEnd(j) \/ ConcError(j)

\* The runs in which the script goes on whenever it can and every awaited
\* filesystem operation, probe and engine invocation is answered.
LiveSpec ==
  /\ Spec
  /\ WF_vars(ProgramStep)
  /\ WF_vars(FsResult)
  /\ WF_vars(ProbeResult)
  /\ WF_vars(EngineResult)

(* ------------------------------- claims ------------------------------- *)

\* The positions of the lines of one kind in a sequence of lines.
LinesOf(lines, kind) == {k \in 1..Len(lines) : lines[k].kind = kind}

HasCon(kind) == LinesOf(console, kind) # {}

\* The summary lines of a sequence of lines add up to n.
SummaryAddsUp(lines, n) ==
  \A k \in LinesOf(lines, "Successful"), l \in LinesOf(lines, "FailedSkipped") :
    lines[k].val + lines[l].val = n

\* C1: in every run that reaches the final summary, the success count plus
\* the failed count the summary reports (on the console, and in the log file
\* when the lines were appended) equals the number of candidate files.
C1_SummaryCountsAddUp ==
  /\ SummaryAddsUp(console, Len(videoFiles))
  /\ SummaryAddsUp(logFile, Len(videoFiles))
  /\ HasCon("SummaryHeader") =>
       /\ Cardinality(LinesOf(console, "Successful")) = 1
       /\ Cardinality(LinesOf(console, "FailedSkipped")) = 1
       /\ \A k \in LinesOf(console, "Successful") : console[k].val = successCount
       /\ \A k \in LinesOf(console, "FailedSkipped") : console[k].val = failedCount

\* C1 witness: a finished sequential run of two candidates, one skipped after
\* a failed source probe and one converted with a failed target probe, whose
\* summary is in the log file.
C1_Witness ==
  /\ pc = "done"
  /\ Len(videoFiles) = 2
  /\ srcProbe[1] = "failed"
  /\ tgtProbe[2] = "failed"
  /\ LinesOf(logFile, "Successful") # {}
  /\ LinesOf(logFile, "FailedSkipped") # {}

\* The lines that state the outcome of a candidate.
OutcomeKinds == {"Skipping", "Failed", "Success", "SuccessNoStats"}

OutcomeLines(j) ==
  {k \in 1..Len(console) :
     console[k].kind \in OutcomeKinds /\ console[k].file = videoFiles[j]}

\* Every operation of candidate j has ended.
Settled(j) ==
  IF IsSequential(script)
    THEN \/ srcProbe[j] = "failed"
         \/ srcProbe[j] = "ok" /\ engine[j] = "error"
         \/ srcProbe[j] = "ok" /\ engine[j] = "end" /\ tgtProbe[j] \in {"ok", "failed"}
    ELSE engine[j] \in {"end", "error"}

\* C2: a run that found candidates ends only after every candidate, also
\* those after a failed one, has been processed and has exactly one outcome;
\* the summary is then reported and counts all of them.
C2_FailureNeverAborts ==
  (pc = "done" /\ videoFiles # <<>>) =>
     /\ \A j \in 1..Len(videoFiles) :
          Settled(j) /\ Cardinality(OutcomeLines(j)) = 1
     /\ HasCon("SummaryHeader")
     /\ successCount + failedCount = Len(videoFiles)

\* C2 witness: the first candidate fails (source probe in a sequential
\* script, engine in the concurrent one) and the run still ends with the
\* second one converted.
C2_Witness ==
  /\ pc = "done"
  /\ Len(videoFiles) = 2
  /\ engine[2] = "end"
  /\ \/ srcProbe[1] = "failed"
     \/ script = Conc /\ engine[1] = "error"

\* An operation of candidate j has begun.
Begun(j) == srcProbe[j] # "none" \/ engine[j] # "idle" \/ tgtProbe[j] # "none"

RunningEngines == {j \in 1..Len(videoFiles) : engine[j] = "running"}

\* Job j is over before anything of job j + 1 begins, and at most one engine
\* invocation is active.
StrictlySequential ==
  /\ Cardinality(RunningEngines) <= 1
  /\ \A j \in 1..(Len(videoFiles) - 1) : Begun(j + 1) => Settled(j)

\* C3, as claimed: processing is strictly sequential in every script.
C3_StrictlySequential == StrictlySequential

\* C3, amended: in the sequential scripts job N's probes and engine
\* invocation are over before any operation of job N + 1 begins, so at most
\* one engine invocation is active; the concurrent script starts them all.
C3_SequentialScripts == IsSequential(script) => StrictlySequential

\* C3 witness: a sequential script runs the engine for the second candidate
\* after the first candidate went through both probes and the engine.
C3_Witness ==
  /\ IsSequential(script)
  /\ Len(videoFiles) = 2
  /\ tgtProbe[1] = "ok"
  /\ engine[2] = "running"

\* C4 on one step: a candidate whose source probe failed has no engine
\* invocation and no target probe, and the step on which the probe fails
\* counts one failure, no success, and moves to the next candidate.
C4_Step ==
  /\ \A j \in 1..Len(videoFiles') :
       srcProbe'[j] = "failed" =>
         engine'[j] = "idle" /\ ~started'[j] /\ tgtProbe'[j] = "none"
  /\ \A j \in 1..Len(videoFiles) :
       (srcProbe[j] = "running" /\ srcProbe'[j] = "failed") =>
         /\ failedCount' = failedCount + 1
         /\ successCount' = successCount
         /\ i' = j + 1
         /\ pc' = "loop"

\* C4: when the source probe of a candidate fails the job is counted as
\* failed, the engine is never invoked for that file, and the next file is
\* processed.
C4_ProbeFailureSkipsEngine == [][C4_Step]_vars

\* C4 witness: the first candidate's source probe failed, one failure is
\* counted, its engine was never invoked, and the second candidate is being
\* probed.
C4_Witness ==
  /\ Len(videoFiles) = 2
  /\ srcProbe[1] = "failed"
  /\ engine[1] = "idle"
  /\ failedCount = 1
  /\ i = 2
  /\ pc = "srcProbe"

\* C5 on one step: from the engine's error event to the end of the
\* iteration the only change of the counters is failedCount + 1, the target
\* is not probed, and the iteration ends with the loop at the next candidate;
\* the concurrent script counts one failure per rejected promise.
C5_Step ==
  /\ \A j \in 1..Len(videoFiles') : engine'[j] = "error" => tgtProbe'[j] = "none"
  /\ \A j \in 1..Len(videoFiles) :
       (IsSequential(script) /\ engine[j] = "running" /\ engine'[j] = "error") =>
         UNCHANGED countVars /\ pc' = "afterConversion" /\ i' = j
  /\ \A j \in 1..Len(videoFiles) :
       (IsSequential(script) /\ engine[j] = "error" /\ i = j) =>
         /\ successCount' = successCount
         /\ pc = "afterConversion" =>
              failedCount' = failedCount + 1 /\ pc' = "finish" /\ i' = j
         /\ pc = "finish" =>
              failedCount' = failedCount /\ pc' = "loop" /\ i' = j + 1
         /\ pc \in {"afterConversion", "finish"}
  /\ (script = Conc /\ pc = "allSettled" /\ pc' = "done") =>
       /\ failedCount' = Cardinality({j \in 1..Len(videoFiles) : engine[j] = "error"})
       /\ successCount' = Len(videoFiles) - failedCount'

\* C5: a terminal engine error increments the failed count by exactly one,
\* leaves the success count unchanged, never probes the target, and the run
\* proceeds to the next file.
C5_EngineErrorCountsOneFailure == [][C5_Step]_vars

\* C5 witness: the engine failed for the first candidate, exactly one
\* failure and no success are counted, and the second candidate is being
\* probed.
C5_Witness ==
  /\ Len(videoFiles) = 2
  /\ engine[1] = "error"
  /\ tgtProbe[1] = "none"
  /\ failedCount = 1
  /\ successCount = 0
  /\ i = 2
  /\ pc = "srcProbe"

\* The lines the step appended to the console.
NewConsoleLines == {k \in 1..Len(console') : k > Len(console)}

\* C6 on one step: the step on which the target probe fails, after the
\* engine ended well, counts one success and no failure and logs the
\* warning; the rest of the iteration leaves the counters alone.
C6_Step ==
  /\ \A j \in 1..Len(videoFiles) :
       (tgtProbe[j] = "running" /\ tgtProbe'[j] = "failed") =>
         /\ engine[j] = "end"
         /\ successCount' = successCount + 1
         /\ failedCount' = failedCount
         /\ \E k \in NewConsoleLines :
              console'[k].kind = "SuccessNoStats" /\ console'[k].file = videoFiles[j]
         /\ ~AppendFails(disk, appendCalls') =>
              logFile' = Append(logFile, MF("SuccessNoStats", videoFiles[j]))
  /\ \A j \in 1..Len(videoFiles) :
       (tgtProbe[j] = "failed" /\ i = j) => UNCHANGED countVars /\ pc = "finish"

\* C6: engine success followed by a failed probe of the output still counts
\* the job as a success (success + 1, failed unchanged) and logs a warning.
C6_TargetProbeFailureIsSuccess == [][C6_Step]_vars

\* C6 witness: a finished run of one candidate whose target probe failed:
\* one success, no failure, the warning in the log file.
C6_Witness ==
  /\ pc = "done"
  /\ Len(videoFiles) = 1
  /\ tgtProbe[1] = "failed"
  /\ successCount = 1
  /\ failedCount = 0
  /\ LinesOf(logFile, "SuccessNoStats") # {}

\* The run was given a name that Object.keys(PRESETS) does not list.
UnlistedPreset == ~NoArgument(argv) /\ argv \notin Range(PresetKeys(script))

\* C7: with a preset name absent from the registry no directory is created
\* or listed, no job runs, and the output names all available presets.
C7_UnknownPresetTouchesNothing ==
  (pc # "entry" /\ UnlistedPreset) =>
     /\ fsCalls = <<>>
     /\ videoFiles = <<>>
     /\ \E k \in LinesOf(console, "AvailablePresets") :
          console[k].text = PresetKeys(script)

\* C8: with an unrecognized preset name nothing is logged beyond the error
\* (the not-found message and the list of available presets).
C8_OnlyTheErrorIsLogged ==
  (pc = "done" /\ UnlistedPreset) =>
     /\ \A k \in 1..Len(logFile) :
          logFile[k].kind \in {"PresetNotFound", "AvailablePresets"}
     /\ \A k \in 1..Len(console) :
          console[k].kind \in {"PresetNotFound", "AvailablePresets"}

\* C9: the run takes the found path exactly when the name is one of
\* Object.keys(PRESETS), and the not-found path for every other name.
C9_LookupAgreesWithKeys ==
  (pc # "entry" /\ ~NoArgument(argv)) =>
     (argv \in Range(PresetKeys(script)) <=> ~HasCon("PresetNotFound"))

\* The input directory was listed and holds no candidate.
ListedNoCandidates ==
  /\ Len(fsCalls) = 3
  /\ fsCalls[3].ok
  /\ videoFiles = <<>>

FailedFsCalls == {k \in 1..Len(fsCalls) : ~fsCalls[k].ok}

\* The line the catch around the directory operations writes.
DirErrorLines ==
  IF IsSequential(script)
    THEN {k \in LinesOf(console, "DirError") : console[k].ch = "log"}
    ELSE {k \in LinesOf(console, "CriticalError") : console[k].ch = "error"}

\* C11: when creating the input directory, creating the output directory or
\* listing the input directory fails, the error is logged (one line, the last
\* of the console; in the log file too when the append succeeds), the run
\* ends with that failed operation as its last directory operation, and no
\* file is listed, probed or handed to the engine.
C11_DirectoryFailureAborts ==
  FailedFsCalls # {} =>
     /\ FailedFsCalls = {Len(fsCalls)}
     /\ pc = "done"
     /\ DirErrorLines = {Len(console)} \/
          (IsSequential(script) /\ AppendFails(disk, appendCalls)
             /\ DirErrorLines = {Len(console) - 1})
     /\ (IsSequential(script) /\ ~AppendFails(disk, appendCalls)) =>
          (logFile # <<>> /\ logFile[Len(logFile)].kind = "DirError")
     /\ files = <<>> /\ videoFiles = <<>>
     /\ srcProbe = <<>> /\ engine = <<>> /\ tgtProbe = <<>>
     /\ promises = <<>> /\ outputPaths = <<>>
     /\ successCount = 0 /\ failedCount = 0
     /\ LinesOf(console, "SummaryHeader") = {}

\* C11 witness: both directories were created, the listing failed, and the
\* error line is the last line of the log file.
C11_Witness ==
  /\ Len(fsCalls) = 3
  /\ fsCalls[3] = FsCall("readdir input", FALSE)
  /\ fsCalls[1].ok /\ fsCalls[2].ok
  /\ pc = "done"
  /\ logFile # <<>>
  /\ logFile[Len(logFile)].kind = "DirError"

(* ------------------------------- C12 ---------------------------------- *)

\* C12: started without a preset argument, the program prints the usage and
\* the names of the available presets (three console lines, the last one
\* carrying the keys of PRESETS) and ends; no append to the log file is ever
\* attempted, so the file is not created, and no directory is created or
\* listed.
C12_NoArgumentOnlyPrintsUsage ==
  NoArgument(argv) =>
     /\ pc \in {"entry", "done"}
     /\ logFile = <<>>
     /\ appendCalls = 0
     /\ fsCalls = <<>>
     /\ files = <<>> /\ videoFiles = <<>> /\ engine = <<>> /\ srcProbe = <<>>
     /\ pc = "entry" => console = <<>>
     /\ pc = "done" =>
          /\ Len(console) = 3
          /\ \A k \in 1..3 : console[k].ch = "log"
          /\ <<console[1].kind, console[2].kind, console[3].kind>> =
               <<"PleaseProvide", "UsageLine", "AvailablePresets">>
          /\ console[3].text = PresetKeys(script)
          /\ Len(console[3].text) = (IF script = SeqEn THEN 5 ELSE 3)

\* C12 witness: a run without argument has ended after printing the usage,
\* on a disk where an append would have failed.
C12_Witness ==
  /\ argv = Undefined
  /\ pc = "done"
  /\ Len(console) = 3
  /\ disk = "full"
  /\ script = SeqEn

(* ------------------------------- C13 ---------------------------------- *)

\* C13: when the size change of a converted file has been computed from a
\* source of size 0, it is the explicit value "unknown", never NaN or an
\* infinity.
C13_ZeroSourceSizeIsUnknown ==
  (sizeChange # NoSizeChange /\ sourceStats.size = 0) =>
     /\ sizeChange.kind = "unknown"
     /\ sizeChange.kind \notin {"NaN", "Infinity", "-Infinity"}

(* ------------------------------- C14 ---------------------------------- *)

\* The bit rate a stats record holds for one stream type.
BitrateOf(stats, type) ==
  IF type = "video" THEN stats.videoBitrate ELSE stats.audioBitrate

\* The value a stats record holds when no stream of the type exists.
NotApplicable(type) == BitrateOf(getFileStats(MetaEmpty), type)

\* C14: in a stats record the prober produced, a stream that exists and
\* carries no bit rate has a bit-rate value different from the one used when
\* no stream of that type exists; and a metadata record without video or
\* audio stream yields a record (the probe does not fail).
C14_MissingBitrateIsNotNotApplicable ==
  \A m \in MetaPool :
    (sourceStats = getFileStats(m) \/ targetStats = getFileStats(m)) =>
       /\ \A type \in {"video", "audio"} :
            LET stream == FindStream(m.streams, type)
            IN  (stream # NoStream /\ stream.bit_rate = Undefined) =>
                   BitrateOf(getFileStats(m), type) # NotApplicable(type)
       /\ getFileStats(m) # NoStats

(* ------------------------------- C15 ---------------------------------- *)

\* Whether a console line was written by logInfo with console.log (the
\* engine's start handler is the only other writer of that channel once an
\* argument is given).
IsLogInfoLine(line) == line.ch = "log" /\ line.kind # "FFmpegCommand"

\* What one step of a sequential run does with its logInfo calls: every
\* call, failed or not, leaves its message on the console; each failed append
\* is reported with one line of the error channel right after the message
\* and leaves the log file as it was; and the step goes where it goes when
\* no append fails: it ends the run only where the run ends anyway, with the
\* summary when there were candidates.
C15_Step ==
  (/\ IsSequential(script)
   /\ ~NoArgument(argv)
   /\ <<console, logFile, appendCalls, pc>>' # <<console, logFile, appendCalls, pc>>) =>
     LET calls == (appendCalls + 1)..appendCalls'
         new == (Len(console) + 1)..Len(console')
         failures == Cardinality({k \in calls : AppendFails(disk, k)})
     IN  /\ Cardinality({k \in new : IsLogInfoLine(console'[k])}) = Cardinality(calls)
         /\ Cardinality({k \in new : console'[k].kind = "CRITICAL"}) = failures
         /\ Len(logFile') = Len(logFile) + Cardinality(calls) - failures
         /\ \A k \in new :
              console'[k].kind = "CRITICAL" =>
                 /\ console'[k].ch = "error"
                 /\ k - 1 \in new
                 /\ IsLogInfoLine(console'[k - 1])
         /\ pc' = "done" => pc \in {"entry", "mkdirInput", "mkdirOutput", "readdir", "loop"}
         /\ (pc' = "done" /\ videoFiles' # <<>>) =>
              /\ successCount' + failedCount' = Len(videoFiles')
              /\ console'[Len(console')
                            - (IF AppendFails(disk, appendCalls') THEN 1 ELSE 0)].kind
                   = "LogsSaved"

\* C15: a failed append to the log file never stops or aborts the run:
\* logInfo completes, the message is on the console, the failure is reported
\* on the error channel, and the run goes on.
C15_AppendFailureIsReportedOnly == [][C15_Step]_vars

\* C15 witness: on a disk where every append fails, a run converted its two
\* candidates and printed the summary; the log file is empty.
C15_Witness ==
  /\ disk = "full"
  /\ IsSequential(script)
  /\ pc = "done"
  /\ N = 2
  /\ successCount = 2
  /\ logFile = <<>>
  /\ appendCalls > 0
  /\ HasCon("LogsSaved")

(* ------------------------------- C16 ---------------------------------- *)

\* The stem of a candidate's name: what precedes its last dot.
StemOf(f) ==
  LET d == CHOOSE k \in 1..Len(f) : f[k] = "." /\ \A m \in (k + 1)..Len(f) : f[m] # "."
  IN  [k \in 1..(d - 1) |-> f[k]]

\* The output extension the registry gives for a preset name.
RegistryExtension(name) ==
  CASE name \in {"conv0_5", "conv0_25s", "conv256s"} -> <<".", "a", "v", "i">>
    [] name = "web_h264" -> <<".", "m", "p", "4">>
    [] name = "extract_audio" -> <<".", "m", "p", "3">>

\* The candidates whose engine invocation has been set up.
Invoked == {j \in 1..N : outputPaths[j] # <<>>}

ListedExtensions ==
  { <<".", "m", "p", "4">>, <<".", "m", "k", "v">>, <<".", "a", "v", "i">>,
    <<".", "m", "o", "v">>, <<".", "f", "l", "v">>, <<".", "w", "m", "v">> }

\* The upper-case spelling of a character of those extensions.
UpperChar(c) ==
  CASE c = "m" -> "M" [] c = "p" -> "P" [] c = "k" -> "K" [] c = "v" -> "V"
    [] c = "a" -> "A" [] c = "i" -> "I" [] c = "o" -> "O" [] c = "f" -> "F"
    [] c = "l" -> "L" [] c = "w" -> "W" [] OTHER -> c

\* A name with a non-empty stem that ends in one of the extensions, in any
\* mix of upper and lower case.
EndsInVideoExtension(f) ==
  \E e \in ListedExtensions :
    /\ Len(f) > Len(e)
    /\ \A k \in 1..Len(e) :
         f[Len(f) - Len(e) + k] \in {e[k], UpperChar(e[k])}

\* Where a name stands in the listing.
PositionIn(listing, f) == CHOOSE k \in 1..Len(listing) : listing[k] = f

\* The input directory has been listed.
Listed == \E k \in 1..Len(fsCalls) : fsCalls[k] = FsCall("readdir input", TRUE)

\* C17: once the input directory is listed, whatever the preset, the
\* candidates are exactly the entries whose extension, lower-cased, is one
\* of .mp4 .mkv .avi .mov .flv .wmv, each once, in the order of the listing.
C17_CandidatesAreVideoEntriesInOrder ==
  Listed =>
     /\ \A f \in Range(files) : (f \in Range(videoFiles)) <=> EndsInVideoExtension(f)
     /\ Range(videoFiles) \subseteq Range(files)
     /\ \A x, y \in 1..Len(videoFiles) :
          x < y => PositionIn(files, videoFiles[x]) < PositionIn(files, videoFiles[y])

\* C17 witness: of the listing <<n.txt, a.MKV>> the second entry alone is a
\* candidate.
C17_Witness ==
  /\ Listed
  /\ files = <<F_n_txt, F_a_MKV>>
  /\ videoFiles = <<F_a_MKV>>
  /\ argv = "web_h264"

(* ------------------------------- C18 ---------------------------------- *)

\* The lines of one candidate's lifecycle, in the order of their log calls
\* in the loop body (the engine's line is written to the console only).
LifecycleKinds ==
  <<"JobStart",
    "SourceStats", "SourceFileSize", "SourceVideo", "SourceAudio",
    "ProbeError", "Skipping",
    "StartTime", "FFmpegCommand", "EndTime", "Duration",
    "Failed",
    "TargetStats", "TargetFileSize", "TargetVideo", "TargetAudio", "SizeChange",
    "Success", "SuccessNoStats",
    "Finished">>

RankOf(kind) == CHOOSE r \in 1..Len(LifecycleKinds) : LifecycleKinds[r] = kind

\* The stage of a lifecycle line: start, source stats, timing, engine
\* events, target stats, outcome, finish.
StageOf(kind) ==
  CASE kind = "JobStart" -> 1
    [] kind \in {"SourceStats", "SourceFileSize", "SourceVideo", "SourceAudio"} -> 2
    [] kind \in {"StartTime", "EndTime", "Duration"} -> 3
    [] kind = "FFmpegCommand" -> 4
    [] kind \in {"TargetStats", "TargetFileSize", "TargetVideo", "TargetAudio",
                 "SizeChange"} -> 5
    [] kind \in {"ProbeError", "Skipping", "Failed", "Success", "SuccessNoStats"} -> 6
    [] kind = "Finished" -> 7

IsLifecycleLine(line) == line.kind \in Range(LifecycleKinds)

\* May line b directly follow line a in the log file?
MayFollow(a, b) ==
  /\ (IsLifecycleLine(a) /\ IsLifecycleLine(b) /\ a.file = b.file) =>
        /\ RankOf(a.kind) < RankOf(b.kind)
        /\ StageOf(a.kind) <= StageOf(b.kind)
  /\ (IsLifecycleLine(a) /\ IsLifecycleLine(b) /\ a.file # b.file) =>
        PositionIn(videoFiles, a.file) < PositionIn(videoFiles, b.file)
  /\ (IsLifecycleLine(a) /\ ~IsLifecycleLine(b)) =>
        b.kind \in {"SummaryHeader", "Successful", "FailedSkipped", "LogsSaved"}
  /\ (~IsLifecycleLine(a) /\ IsLifecycleLine(b)) =>
        a.kind \in {"SessionStart", "Found"}

\* The console lines of this step whose append succeeded, in console order
\* (the concurrent script never calls logInfo).
AppendedNow ==
  {k \in IF ~IsSequential(script) THEN {} ELSE (Len(console) + 1)..Len(console') :
     /\ IsLogInfoLine(console'[k])
     /\ ~(k < Len(console') /\ console'[k + 1].kind = "CRITICAL")}

\* What one step appends to the log file: the messages of its successful
\* logInfo calls, in the order of the calls; each appended line may follow
\* the line before it.
C18_Step ==
  LET new == (Len(logFile) + 1)..Len(logFile')
  IN  /\ SubSeq(logFile', 1, Len(logFile)) = logFile
      /\ NoArgument(argv) => new = {}
      /\ ~NoArgument(argv) => Cardinality(AppendedNow) = Cardinality(new)
      /\ \A l \in new :
           /\ LET k == CHOOSE s \in AppendedNow :
                           Cardinality({t \in AppendedNow : t <= s}) = l - Len(logFile)
                IN  Con("log", logFile'[l]) = console'[k]
           /\ l > 1 => MayFollow(logFile'[l - 1], logFile'[l])
           /\ logFile'[l].kind # "FFmpegCommand"

\* C18: in the log file the lines of one candidate's lifecycle stand in the
\* fixed order start, source stats, timing, target stats, outcome, finish
\* (the engine's events are written to the console only), every line is
\* appended in the order its log call was issued, and no line of another
\* candidate stands between two lines of one candidate.
C18_LifecycleLinesInOrder == [][C18_Step]_vars

\* C18 witness: two candidates were converted and probed on a sound disk;
\* the log file holds both lifecycles, the first one's finish line before
\* the second one's start line.
C18_Witness ==
  /\ disk = "ok"
  /\ pc = "done"
  /\ N = 2
  /\ successCount = 2
  /\ \E a \in LinesOf(logFile, "Finished"), b \in LinesOf(logFile, "JobStart") :
       /\ a + 1 = b
       /\ logFile[a].file = videoFiles[1]
       /\ logFile[b].file = videoFiles[2]
  /\ \E k \in LinesOf(logFile, "SizeChange") : logFile[k + 1].kind = "Success"

(* ------------------------------- C19 ---------------------------------- *)

\* The lines of one kind a sequence holds for one candidate.
LinesFor(lines, kind, f) ==
  {k \in 1..Len(lines) : lines[k].kind = kind /\ lines[k].file = f}

\* C19: in a sequential script, once the iteration of a candidate whose
\* engine reported an error is past the handling of that error, the failure
\* line of the candidate has been logged, and before it the end time and
\* then the duration of that job: always on the console, and in the log file
\* whenever all three appends succeeded.
C19_TimingLoggedBeforeFailure ==
  IsSequential(script) =>
    \A j \in 1..N :
      (engine[j] = "error" /\ (j < i \/ pc = "finish")) =>
         LET f == videoFiles[j]
         IN  /\ LinesFor(console, "Failed", f) # {}
             /\ \A c \in LinesFor(console, "Failed", f) :
                  /\ console[c].ch = "log"
                  /\ \E b \in LinesFor(console, "Duration", f) :
                       /\ b < c
                       /\ console[b].ch = "log"
                       /\ \E a \in LinesFor(console, "EndTime", f) :
                            a < b /\ console[a].ch = "log"
             /\ \A c \in LinesFor(logFile, "Failed", f) :
                  /\ \A a \in LinesFor(logFile, "EndTime", f) \cup
                              LinesFor(logFile, "Duration", f) : a < c
                  /\ disk = "ok" =>
                       /\ c > 2
                       /\ logFile[c - 2] = MF("EndTime", f)
                       /\ logFile[c - 1] = MF("Duration", f)
             /\ disk = "ok" => LinesFor(logFile, "Failed", f) # {}

\* C19 witness: the engine failed on the first of two candidates; end time,
\* duration and failure line are in the log file, and the run went on.
C19_Witness ==
  /\ IsSequential(script)
  /\ N = 2
  /\ engine[1] = "error"
  /\ i = 2
  /\ disk = "ok"
  /\ \E c \in LinesFor(logFile, "Failed", videoFiles[1]) :
       logFile[c - 1] = MF("Duration", videoFiles[1])

(* ------------------------------- C20 ---------------------------------- *)

\* The final summary has been logged.
SummaryLogged == pc = "done" /\ HasCon("SummaryHeader")

\* While an engine invocation has delivered no terminal event, the run
\* stands at its await: in a sequential script it is the invocation of the
\* current candidate, no later candidate has been begun, and in every script
\* no summary is logged and the run has not ended.
StalledWhileRunning ==
  \A j \in 1..N :
    engine[j] = "running" =>
       /\ ~HasCon("SummaryHeader")
       /\ pc # "done"
       /\ IsSequential(script) =>
            /\ pc = "engine"
            /\ i = j
            /\ \A k \in (j + 1)..N :
                 /\ ~Begun(k)
                 /\ LinesFor(console, "JobStart", videoFiles[k]) = {}

\* C20: when every probe and every engine invocation delivers a terminal
\* result, a run that found at least one candidate eventually logs the final
\* summary; and as long as an engine invocation has delivered no terminal
\* event, no later candidate is processed and no summary is logged.
C20_SummaryUnlessEngineStalls ==
  /\ (videoFiles # <<>>) ~> SummaryLogged
  /\ []StalledWhileRunning

\* C20 witness: a sequential run of two candidates, the first converted and
\* the second failed by the engine, has logged its summary.
C20_Witness ==
  /\ IsSequential(script)
  /\ N = 2
  /\ engine = <<"end", "error">>
  /\ SummaryLogged
  /\ argv = "web_h264"

(* ------------------------------- C21 ---------------------------------- *)

\* C21: in the concurrent script no two engine invocations that are running
\* at the same time were given the same output path.
C21_RunningEnginesWriteDistinctFiles ==
  script = Conc =>
    \A j, k \in 1..N :
      (j # k /\ engine[j] = "running" /\ engine[k] = "running") =>
         outputPaths[j] # outputPaths[k]

(* ------------------------------- C22 ---------------------------------- *)

\* The candidates whose processing has finished: the iterations the loop has
\* left, and the current one once its outcome is decided.
FinishedJobs == {j \in 1..N : j < i \/ (j = i /\ pc = "finish")}

\* C22 on one step of a sequential script: afterwards the two counters add
\* up to the number of finished candidates; neither counter decreases; they
\* grow by one in all exactly on the step that finishes a candidate, which
\* is the current one, and never otherwise.
C22_Step ==
  IsSequential(script) =>
     /\ successCount' + failedCount' = Cardinality(FinishedJobs')
     /\ successCount' >= successCount
     /\ failedCount' >= failedCount
     /\ (successCount' - successCount) + (failedCount' - failedCount) =
          Cardinality(FinishedJobs' \ FinishedJobs)
     /\ FinishedJobs \subseteq FinishedJobs'
     /\ FinishedJobs' \ FinishedJobs \in {{}, {i}}
     /\ pc' = "done" => (videoFiles' = <<>> \/ FinishedJobs' = 1..Len(videoFiles'))

\* C22: in the sequential scripts the success count plus the failed count
\* always equals the number of candidates whose processing has finished;
\* neither counter ever decreases, and each candidate increments exactly one
\* of the two, exactly once.
C22_CountersTrackFinishedJobs == [][C22_Step]_vars

\* C22 witness: in the middle of the loop of a sequential script the first
\* candidate was skipped and counted as failed, the second has just been
\* converted and counted as a success, and its finish line is not yet logged.
C22_Witness ==
  /\ IsSequential(script)
  /\ N = 2
  /\ i = 2
  /\ pc = "finish"
  /\ srcProbe[1] = "failed"
  /\ failedCount = 1
  /\ successCount = 1

=============================================================================
